---- MODULE Spec2Model ----
(***************************************************************************)
(* Model of the mookuauhau genealogy GraphQL service (src/index.js).       *)
(*                                                                         *)
(* The program holds one module-level array, `people`, and a resolver map  *)
(* with two entries, getPeople and getShortestPath.  The schema declares   *)
(* five Query fields; a field without an entry in the resolver map is      *)
(* resolved by the GraphQL default field resolver, which reads the field   *)
(* from the (undefined) root value and so yields null.                     *)
(*                                                                         *)
(* One step of the model is the execution of one Query field with one      *)
(* argument object.  The state keeps the array, the field, arguments and   *)
(* result of the latest request, and those of the request before it, so    *)
(* that properties relating two requests can be stated.                    *)
(***************************************************************************)
EXTENDS Integers, Sequences, FiniteSets, TLC

VARIABLES people, field, args, result, prev

vars == <<people, field, args, result, prev>>

(***************************************************************************)
(* Bounds of the request arguments.                                        *)
(***************************************************************************)
\* person ids offered as arguments are 0..MaxId (0 and 5 are in no record)
MaxId == 5
\* limit and offset are drawn from -1..MaxPage, or left out
MaxPage == 3

IdVals == 0..MaxId
PageVals == -1..MaxPage
Texts == {"", " ", "momoa"}

(***************************************************************************)
(* The data: const people = [...]                                          *)
(* A record has exactly the properties the object literal has; a property  *)
(* the literal does not write (children everywhere, parents of the nested  *)
(* objects) is not in the record's domain.                                 *)
(***************************************************************************)
SamplePeople ==
    << [id |-> 1, name |-> "Jason Momoa", sex |-> "M",
        birth |-> [date |-> "1982-01-01", place |-> [name |-> "Honolulu"]],
        parents |-> << [id |-> 3, name |-> "Mommy Momoa", sex |-> "F",
                        birth |-> [date |-> "1959-01-01",
                                   place |-> [name |-> "Hilo"]]] >>],
       [id |-> 2, name |-> "Aulii Cravalho", sex |-> "F",
        birth |-> [date |-> "1995-01-01", place |-> [name |-> "Honolulu"]],
        parents |-> << [id |-> 4, name |-> "Mommy Cravalho", sex |-> "F",
                        birth |-> [date |-> "1973-01-01",
                                   place |-> [name |-> "Lihue"]]] >>] >>

(***************************************************************************)
(* The schema: type Query.  Each field with the argument objects a request *)
(* may carry: Int! arguments are always present, Int arguments may be      *)
(* left out of the object.                                                 *)
(***************************************************************************)
QueryFields ==
    {"getPerson", "getPeople", "getShortestPath", "searchPeople", "searchPlaces"}

GetPersonArgs == [id : IdVals]
GetPeopleArgs == UNION {[D -> PageVals] : D \in SUBSET {"limit", "offset"}}
GetShortestPathArgs == [person1 : IdVals, person2 : IdVals]
SearchArgs == [text : Texts]

ArgsOf(f) ==
    CASE f = "getPerson" -> GetPersonArgs
      [] f = "getPeople" -> GetPeopleArgs
      [] f = "getShortestPath" -> GetShortestPathArgs
      [] OTHER -> SearchArgs

(***************************************************************************)
(* Results of executing a field: a list of records, null, or an error.     *)
(***************************************************************************)
ListResult(s) == [kind |-> "list", items |-> s]
NullResult == [kind |-> "null", items |-> <<>>]
ErrorResult == [kind |-> "error", items |-> <<>>]

NoRequest == [field |-> "none", args |-> <<>>, result |-> NullResult]

(***************************************************************************)
(* The resolver map: const resolvers = { Query: { getPeople,               *)
(* getShortestPath } }.  `resolvers` is the set of its keys.               *)
(***************************************************************************)
resolvers == {"getPeople", "getShortestPath"}

\* getPeople written with Array.prototype.splice: people.splice(0) returns
\* the records and empties the array in place
getPeople_splice(a) ==
    /\ result' = ListResult(people)
    /\ people' = <<>>

\* getPeople: () => people
getPeople(a) ==
    /\ result' = ListResult(people)
    /\ people' = people

\* getShortestPath keeping only the records of the two persons asked for
getShortestPath_filtered(a) ==
    /\ result' = ListResult(SelectSeq(people,
                     LAMBDA r : r.id \in {a.person1, a.person2}))
    /\ people' = people

\* getShortestPath: (p1, p2) => people
getShortestPath(a) ==
    /\ result' = ListResult(people)
    /\ people' = people

\* a field with no entry in the resolver map: the default field resolver
\* reads the property from the root value, which is undefined
defaultFieldResolver(a) ==
    /\ result' = NullResult
    /\ people' = people

(***************************************************************************)
(* Execution of one Query field by the server.                             *)
(***************************************************************************)
Execute(f, a) ==
    /\ field' = f
    /\ args' = a
    /\ prev' = [field |-> field, args |-> args, result |-> result]
    /\ IF f \notin resolvers THEN defaultFieldResolver(a)
       ELSE IF f = "getPeople" THEN getPeople(a)
       ELSE getShortestPath(a)

QueryGetPerson == \E a \in GetPersonArgs : Execute("getPerson", a)
QueryGetPeople == \E a \in GetPeopleArgs : Execute("getPeople", a)
QueryGetShortestPath == \E a \in GetShortestPathArgs : Execute("getShortestPath", a)
QuerySearchPeople == \E a \in SearchArgs : Execute("searchPeople", a)
QuerySearchPlaces == \E a \in SearchArgs : Execute("searchPlaces", a)

Init ==
    /\ people = SamplePeople
    /\ field = "none"
    /\ args = <<>>
    /\ result = NullResult
    /\ prev = NoRequest

Next ==
    \/ QueryGetPerson
    \/ QueryGetPeople
    \/ QueryGetShortestPath
    \/ QuerySearchPeople
    \/ QuerySearchPlaces

Spec == Init /\ [][Next]_vars

TypeOK ==
    /\ field \in QueryFields \cup {"none"}
    /\ field \in QueryFields => args \in ArgsOf(field)
    /\ result.kind \in {"list", "null", "error"}

(***************************************************************************)
(* Vocabulary of the properties.                                           *)
(***************************************************************************)
Range(s) == {s[i] : i \in DOMAIN s}
IdsOf(s) == [i \in DOMAIN s |-> s[i].id]
Min(a, b) == IF a < b THEN a ELSE b

\* the persons a record refers to under property p; none when it has no p
Refs(r, p) == IF p \in DOMAIN r THEN Range(r[p]) ELSE {}

\* every person record of a population: the listed ones and, transitively,
\* the ones nested under parents and children
RECURSIVE Closure(_)
Closure(S) ==
    LET T == S \cup UNION {Refs(r, "parents") \cup Refs(r, "children") : r \in S}
    IN IF T = S THEN S ELSE Closure(T)

Persons(pop) == Closure(Range(pop))
PersonIds(pop) == {r.id : r \in Persons(pop)}

\* the symmetric parent/child graph over person ids
Linked(pop, x, y) ==
    \E r \in Persons(pop) :
        \E q \in Refs(r, "parents") \cup Refs(r, "children") :
            {r.id, q.id} = {x, y}

\* ids within n hops of x
RECURSIVE Within(_, _, _)
Within(pop, x, n) ==
    IF n = 0 THEN {x}
    ELSE LET W == Within(pop, x, n - 1)
         IN W \cup {y \in PersonIds(pop) : \E w \in W : Linked(pop, w, y)}

Connected(pop, x, y) == y \in Within(pop, x, Cardinality(PersonIds(pop)))

\* breadth-first distance, for connected x and y
Distance(pop, x, y) ==
    CHOOSE n \in 0..Cardinality(PersonIds(pop)) :
        /\ y \in Within(pop, x, n)
        /\ \A m \in 0..(n - 1) : y \notin Within(pop, x, m)

IsPath(pop, ids) ==
    \A i \in 1..(Len(ids) - 1) : Linked(pop, ids[i], ids[i + 1])

\* the page of a population that starts after `offset` records and has at
\* most `limit` records
Page(pop, limit, offset) ==
    SubSeq(pop, offset + 1, Min(Len(pop), offset + limit))

Arg(a, k, default) == IF k \in DOMAIN a THEN a[k] ELSE default

(***************************************************************************)
(* C1.  For person ids A and B that are both present and connected in the  *)
(* symmetric parent/child graph, getShortestPath(A, B) returns a sequence  *)
(* of persons that starts at A, ends at B, has consecutive elements linked *)
(* by a parent/child edge, and has the breadth-first distance as its hop   *)
(* count.                                                                  *)
(***************************************************************************)
C1_ShortestPathIsMinimal ==
    (/\ field = "getShortestPath"
     /\ args.person1 \in PersonIds(people)
     /\ args.person2 \in PersonIds(people)
     /\ Connected(people, args.person1, args.person2))
    => /\ result.kind = "list"
       /\ Len(result.items) >= 1
       /\ IdsOf(result.items)[1] = args.person1
       /\ IdsOf(result.items)[Len(result.items)] = args.person2
       /\ IsPath(people, IdsOf(result.items))
       /\ Len(result.items) - 1 = Distance(people, args.person1, args.person2)

(***************************************************************************)
(* C2.  For two person ids in disconnected components of the parent/child  *)
(* graph, getShortestPath returns no persons; on the sample data           *)
(* getShortestPath(1, 2) returns no persons.                               *)
(***************************************************************************)
C2_DisconnectedIsEmpty ==
    (/\ field = "getShortestPath"
     /\ args.person1 \in PersonIds(people)
     /\ args.person2 \in PersonIds(people)
     /\ ~Connected(people, args.person1, args.person2))
    => result.items = <<>>

(***************************************************************************)
(* C3.  For every person id A present in the data, getShortestPath(A, A)   *)
(* returns exactly one element, the person with id A.                      *)
(***************************************************************************)
C3_SelfPathIsSingleton ==
    (/\ field = "getShortestPath"
     /\ args.person1 = args.person2
     /\ args.person1 \in PersonIds(people))
    => /\ result.kind = "list"
       /\ IdsOf(result.items) = <<args.person1>>
(***************************************************************************)
(* C4.  Consecutive pages of size `limit` partition the population: the    *)
(* results of getPeople(limit, offset) and getPeople(limit, offset+limit)  *)
(* share no person and together are the records offset+1..offset+2*limit   *)
(* of the ordered population; with limit = 2, offset = 0 and a population  *)
(* of at least 4 these are the first four persons.                         *)
(***************************************************************************)
C4_PagesPartition ==
    (/\ field = "getPeople"
     /\ prev.field = "getPeople"
     /\ DOMAIN args = {"limit", "offset"}
     /\ DOMAIN prev.args = {"limit", "offset"}
     /\ args.limit >= 1
     /\ prev.args.limit = args.limit
     /\ prev.args.offset >= 0
     /\ args.offset = prev.args.offset + args.limit)
    => /\ prev.result.kind = "list"
       /\ result.kind = "list"
       /\ Range(IdsOf(prev.result.items)) \cap Range(IdsOf(result.items)) = {}
       /\ prev.result.items \o result.items
              = Page(people, 2 * args.limit, prev.args.offset)

(***************************************************************************)
(* C5.  getPeople(limit, offset) returns persons in ascending id order,    *)
(* skips the first `offset` persons and contains at most `limit` persons;  *)
(* on the sample data getPeople(limit=2, offset=0) returns the persons     *)
(* with ids 1, 2 in that order.                                            *)
(***************************************************************************)
C5_PageOfPeople ==
    (/\ field = "getPeople"
     /\ Arg(args, "limit", 0) >= 0
     /\ Arg(args, "offset", 0) >= 0)
    => /\ result.kind = "list"
       /\ \A i, j \in DOMAIN result.items :
              i < j => result.items[i].id < result.items[j].id
       /\ \A i \in DOMAIN result.items :
              /\ Arg(args, "offset", 0) + i <= Len(people)
              /\ result.items[i] = people[Arg(args, "offset", 0) + i]
       /\ "limit" \in DOMAIN args => Len(result.items) <= args.limit
       /\ (people = SamplePeople /\ args = [limit |-> 2, offset |-> 0])
              => IdsOf(result.items) = <<1, 2>>

(***************************************************************************)
(* C6.  searchPeople("") and searchPlaces("") each return an empty         *)
(* sequence: an empty query text never yields the full data nor any        *)
(* non-empty result.                                                       *)
(***************************************************************************)
C6_EmptyTextIsEmptyList ==
    (field \in {"searchPeople", "searchPlaces"} /\ args.text = "")
    => result = ListResult(<<>>)

(***************************************************************************)
(* C7.  getPeople with a negative limit or a negative offset is rejected   *)
(* with a validation error: it returns no list of persons, and the stored  *)
(* population is unchanged.                                                *)
(***************************************************************************)
C7_NegativePageRejected ==
    (/\ field = "getPeople"
     /\ (Arg(args, "limit", 0) < 0 \/ Arg(args, "offset", 0) < 0))
    => /\ result = ErrorResult
       /\ people = SamplePeople

(***************************************************************************)
(* C8.  No query mutates state: after any sequence of requests the stored  *)
(* population is the one loaded at startup, and a request repeated with    *)
(* the same arguments returns the same result.                             *)
(***************************************************************************)
C8_QueriesAreReadOnly ==
    /\ people = SamplePeople
    /\ (field # "none" /\ prev.field = field /\ prev.args = args)
           => result = prev.result

C8_Witness ==
    /\ field = "getPeople"
    /\ prev.field = "getPeople"
    /\ prev.args = args
    /\ args = [limit |-> 2, offset |-> 0]
    /\ result = ListResult(SamplePeople)

(***************************************************************************)
(* C9.  Parent/child relations in the data served to queries are mutually  *)
(* consistent: for every person A and every B among A's parents, B's       *)
(* children contain A, and every child C listed by B has B among C's       *)
(* parents.                                                                *)
(***************************************************************************)
Consistent(pop) ==
    \A a \in Persons(pop) :
        /\ \A b \in Refs(a, "parents") :
               \A r \in Persons(pop) :
                   r.id = b.id => a.id \in {c.id : c \in Refs(r, "children")}
        /\ \A c \in Refs(a, "children") :
               \A r \in Persons(pop) :
                   r.id = c.id => a.id \in {b.id : b \in Refs(r, "parents")}

C9_ParentChildConsistent ==
    /\ Consistent(people)
    /\ result.kind = "list" => Consistent(result.items)

====
